---- MODULE Spec2Model ----
(***************************************************************************)
(* Model of pipes/alignment.py: AlignmentPipeline.run() and the stages it  *)
(* calls (load_data, align_texts, _align_sents, _generate_xml,             *)
(* save_alignment_file).  Python strings on which the code works character *)
(* by character (ids, keys, pair names, xtargets) are sequences of         *)
(* one-character strings.  The external aligner (Bertalign) and the        *)
(* spreadsheet are inputs: the table is drawn in Init, the aligner's       *)
(* output at each call.                                                    *)
(***************************************************************************)
EXTENDS Integers, Sequences, FiniteSets, TLC

\* ------------------------------------------------------------- bounds
\* Largest number of rows of the input table.
MaxDocs == 3
\* Largest number of (left_side, right_side) beads the aligner returns.
MaxLinks == 2

\* ------------------------------------------------------------ strings
UpperCase == <<"A","B","C","D","E","F","G","H","I","J","K","L","M",
               "N","O","P","Q","R","S","T","U","V","W","X","Y","Z">>
LowerCase == <<"a","b","c","d","e","f","g","h","i","j","k","l","m",
               "n","o","p","q","r","s","t","u","v","w","x","y","z">>

Letters == {UpperCase[i] : i \in 1..Len(UpperCase)} \cup {LowerCase[i] : i \in 1..Len(LowerCase)}

\* ord(c) for the letters the keys are made of (code points, A = 65, a = 97).
OrdTable ==
    [c \in Letters |->
        IF \E i \in 1..Len(UpperCase) : UpperCase[i] = c
        THEN 64 + (CHOOSE i \in 1..Len(UpperCase) : UpperCase[i] = c)
        ELSE 96 + (CHOOSE i \in 1..Len(LowerCase) : LowerCase[i] = c)]

Ord(c) == OrdTable[c]

\* c.lower() for a letter.
LowerTable ==
    [c \in Letters |->
        IF \E i \in 1..Len(UpperCase) : UpperCase[i] = c
        THEN LowerCase[CHOOSE i \in 1..Len(UpperCase) : UpperCase[i] = c]
        ELSE c]

\* str.lower(), character by character: only letters change.
LowerChar(c) == IF c \in Letters THEN LowerTable[c] ELSE c

lower(s) == [i \in 1..Len(s) |-> LowerChar(s[i])]

\* Python's s < t on str: lexicographic on code points, a proper prefix is less.
StrLess(s, t) ==
    \E k \in 1..(Len(t)) :
        /\ \A i \in 1..(k-1) : i <= Len(s) /\ s[i] = t[i]
        /\ \/ Len(s) = k - 1
           \/ (k <= Len(s) /\ Ord(s[k]) < Ord(t[k]))

\* str(n) for a non-negative int: decimal digits.
Digits == <<"0","1","2","3","4","5","6","7","8","9">>
RECURSIVE str(_)
str(n) == IF n < 10 THEN <<Digits[n + 1]>> ELSE str(n \div 10) \o <<Digits[(n % 10) + 1]>>

\* sep.join(parts)
RECURSIVE join(_, _)
join(sep, parts) ==
    IF parts = <<>> THEN <<>>
    ELSE IF Len(parts) = 1 THEN parts[1]
    ELSE parts[1] \o sep \o join(sep, Tail(parts))

\* Python's `needle in hay` on str.
Contains(hay, needle) ==
    \E k \in 0..(Len(hay) - Len(needle)) :
        \A i \in 1..Len(needle) : hay[k + i] = needle[i]

RECURSIVE Flatten(_)
Flatten(ss) == IF ss = <<>> THEN <<>> ELSE Head(ss) \o Flatten(Tail(ss))

Range(s) == {s[i] : i \in 1..Len(s)}

\* ----------------------------------------------------- the input table
\* Column values of texts.xlsx the model draws from.
DocIds == << <<"7">>, <<"6","4","3">>, <<"8">>, <<"6","4","1">>, <<"1","6","4","1">> >>
EventIds == {1, 2}
S_EN == <<"E","N">>
S_en == <<"e","n">>
S_source == <<"s","o","u","r","c","e">>
S_target == <<"t","a","r","g","e","t">>
S_spoken == <<"s","p","o","k","e","n">>
S_written == <<"w","r","i","t","t","e","n">>
\* (lang, source_target, spoken_written) of a row
GroupKeys == { <<S_EN, S_source, S_written>>,
               <<S_en, S_source, S_written>>,
               <<S_en, S_target, S_spoken>> }

\* An <s> element: text is None for an element without text.
NoText == [none |-> TRUE, text |-> <<>>]
Sent(t) == [none |-> FALSE, text |-> t]
\* sentence_split_text: a null cell, a string that is not well-formed XML, or a
\* well-formed document with its <s> elements in document order.
NullCell == [kind |-> "null", s |-> <<>>]
Malformed == [kind |-> "malformed", s |-> <<>>]
Markup(ss) == [kind |-> "xml", s |-> ss]
\* What row i holds when its text is to come out empty, and the markup with text.
EmptyMarkups == <<NullCell, Malformed, Markup(<<NoText>>), Markup(<<>>), NullCell>>
TextMarkup == Markup(<<Sent(<<"a">>), NoText, Sent(<<"b">>)>>)

\* What a row can be given: any event and key, and a markup with or without text.
RowChoices == [event_id : EventIds, key : GroupKeys, text : BOOLEAN]

\* The table of n rows given by f: row i has the id DocIds[i] (ids are unique).
Table(n, f) ==
    [i \in 1..n |->
        [id |-> DocIds[i],
         event_id |-> f[i].event_id,
         lang |-> f[i].key[1],
         source_target |-> f[i].key[2],
         spoken_written |-> f[i].key[3],
         sentence_split_text |-> IF f[i].text THEN TextMarkup ELSE EmptyMarkups[i]]]

\* ------------------------------------------------------------- aligner
\* Bertalign's get_result(): a list of (left_side, right_side) index lists.  The
\* outputs drawn are prefixes of one monotone alignment: no bead, one bead, and
\* MaxLinks beads.
Alignment == << << <<0>>, <<0>> >>, << <<1, 2>>, <<1>> >>, << <<>>, <<2>> >>,
                << <<3>>, <<3, 4>> >> >>
AlignerOutputs == { SubSeq(Alignment, 1, n) : n \in {0, 1, MaxLinks} }

VARIABLES
    pc,                 \* position in run()
    texts_xlsx,         \* the spreadsheet at texts_path
    texts_data,         \* self.texts_data (<<>> while None)
    aligned_texts,      \* self.aligned_texts
    failed_pairs,       \* self.failed_pairs
    xml_files,          \* xml_output_dir: the set of [path, content] of its .xml files
    alignments_xlsx,    \* xml_output_dir/alignments.xlsx
    stdout,             \* what run() has printed
    grouped,            \* local of align_texts: the events with their rows
    combinations,       \* local of align_texts: the keys of the event with their rows
    ev, g1, g2,         \* loop positions: event, group1, group2 (indices)
    r1, r2,             \* loop positions: row1, row2 (indices in the groups)
    pair_name,          \* local of align_texts
    alignment_results,  \* local of align_texts
    aligner_calls,      \* calls made to the external aligner
    processed,          \* history: every GroupPair that passed the test of line 55
    attempts,           \* history: every _align_sents invocation, with the position
                        \*          of its GroupPair in processed
    writes              \* history: every _generate_xml call, likewise

vars == <<pc, texts_xlsx, texts_data, aligned_texts, failed_pairs, xml_files,
          alignments_xlsx, stdout, grouped, combinations, ev, g1, g2, r1, r2,
          pair_name, alignment_results, aligner_calls, attempts, processed, writes>>

Init ==
    /\ pc = "load_data"
    /\ \E n \in 0..MaxDocs : \E f \in [1..n -> RowChoices] : texts_xlsx = Table(n, f)
    /\ texts_data = <<>>
    /\ aligned_texts = <<>>
    /\ failed_pairs = <<>>
    /\ xml_files = {}
    /\ alignments_xlsx = [written |-> FALSE, rows |-> <<>>]
    /\ stdout = <<>>
    /\ grouped = <<>>
    /\ combinations = <<>>
    /\ ev = 1 /\ g1 = 1 /\ g2 = 1 /\ r1 = 1 /\ r2 = 1
    /\ pair_name = <<>>
    /\ alignment_results = <<>>
    /\ aligner_calls = 0
    /\ attempts = <<>>
    /\ processed = <<>>
    /\ writes = <<>>

\* ----------------------------------------------------------- load_data
\* _process_xml_sentences
_process_xml_sentences(xml_str) ==
    IF xml_str.kind = "null" THEN <<>>
    ELSE IF xml_str.kind = "malformed" THEN <<>>
    ELSE LET found == SelectSeq(xml_str.s, LAMBDA e : ~e.none)
             sentences == [i \in 1..Len(found) |-> found[i].text]
         IN  join(<<"\n">>, sentences)

\* read_excel, the renaming of the columns and the processed_text column.
LoadedTable(xlsx) ==
    [i \in 1..Len(xlsx) |->
        [id |-> xlsx[i].id,
         event_id |-> xlsx[i].event_id,
         lang |-> xlsx[i].lang,
         source_target |-> xlsx[i].source_target,
         spoken_written |-> xlsx[i].spoken_written,
         sentence_split_text |-> xlsx[i].sentence_split_text,
         processed_text |-> _process_xml_sentences(xlsx[i].sentence_split_text)]]

\* ---------------------------------------------------------- align_texts
\* The smallest element of a non-empty set under a strict total order.
MinInt(S) == CHOOSE x \in S : \A y \in S : x <= y

RECURSIVE SortedInts(_)
SortedInts(S) == IF S = {} THEN <<>> ELSE <<MinInt(S)>> \o SortedInts(S \ {MinInt(S)})

KeyOf(row) == <<row.lang, row.source_target, row.spoken_written>>

\* Fault variant of TupleLess: <= in place of <.
TupleLeq(a, b) ==
    \/ a = b
    \/ \E k \in 1..3 :
          /\ \A i \in 1..(k-1) : a[i] = b[i]
          /\ StrLess(a[k], b[k])

\* Python's a < b on two 3-tuples of str: the first differing component decides.
TupleLess(a, b) ==
    \E k \in 1..3 :
        /\ \A i \in 1..(k-1) : a[i] = b[i]
        /\ StrLess(a[k], b[k])

MinKey(S) == CHOOSE x \in S : \A y \in S \ {x} : TupleLess(x, y)

RECURSIVE SortedKeys(_)
SortedKeys(S) == IF S = {} THEN <<>> ELSE <<MinKey(S)>> \o SortedKeys(S \ {MinKey(S)})

\* The positions of the rows of the table (the frame's index).
Index(data) == [i \in 1..Len(data) |-> i]

\* texts_data.groupby('event_id'): the events in sorted order, each with the
\* positions of its rows in table order.
GroupByEvent(data) ==
    LET ids == SortedInts({data[i].event_id : i \in 1..Len(data)})
    IN  [e \in 1..Len(ids) |->
            [event_id |-> ids[e],
             rows |-> SelectSeq(Index(data), LAMBDA i : data[i].event_id = ids[e])]]

\* group.groupby(['lang', 'source_target', 'spoken_written']): the keys in sorted
\* order, each with the positions of its rows in table order.
GroupByKey(data, group) ==
    LET ks == SortedKeys({KeyOf(data[group[i]]) : i \in 1..Len(group)})
    IN  [k \in 1..Len(ks) |->
            [key |-> ks[k],
             rows |-> SelectSeq(group, LAMBDA i : KeyOf(data[i]) = ks[k])]]

\* The loop variables of align_texts at the current position.
event_id == grouped[ev].event_id
key1 == combinations[g1].key
key2 == combinations[g2].key
group1 == combinations[g1].rows
group2 == combinations[g2].rows
row1 == texts_data[group1[r1]]
row2 == texts_data[group2[r2]]

S_EPTIC == <<"E","P","T","I","C",".">>
S_auto == <<"a","u","t","o">>

\* The f-string of lines 57-60.
PairName(k1, k2) ==
    S_EPTIC \o lower(k1[1]) \o <<"_">> \o lower(k1[3]) \o <<"_">> \o lower(k1[2])
            \o <<".">>
            \o lower(k2[1]) \o <<"_">> \o lower(k2[3]) \o <<"_">> \o lower(k2[2])

\* The next iteration of the three nested for loops over events and keys: e of
\* nev events, (i, j) of the n keys of event e.
NextPair(nev, n, e, i, j) ==
    IF j < n THEN [done |-> FALSE, ev |-> e, g1 |-> i, g2 |-> j + 1]
    ELSE IF i < n THEN [done |-> FALSE, ev |-> e, g1 |-> i + 1, g2 |-> 1]
    ELSE IF e < nev THEN [done |-> FALSE, ev |-> e + 1, g1 |-> 1, g2 |-> 1]
    ELSE [done |-> TRUE, ev |-> e, g1 |-> i, g2 |-> j]

\* Fault variant of NextRows: the rows are paired by position, not crossed.
ZipRows(m, n, a, b) ==
    IF a < m /\ b < n THEN [done |-> FALSE, r1 |-> a + 1, r2 |-> b + 1]
    ELSE [done |-> TRUE, r1 |-> a, r2 |-> b]

\* The next iteration of the two nested for loops over the rows of a pair.
NextRows(m, n, a, b) ==
    IF b < n THEN [done |-> FALSE, r1 |-> a, r2 |-> b + 1]
    ELSE IF a < m THEN [done |-> FALSE, r1 |-> a + 1, r2 |-> 1]
    ELSE [done |-> TRUE, r1 |-> a, r2 |-> b]

\* --------------------------------------------------------- _align_sents
None == [none |-> TRUE, links |-> <<>>]
Some(ls) == [none |-> FALSE, links |-> ls]

\* texts_data.loc[texts_data['id'] == id, 'processed_text'].values[0]
TextOf(data, id) ==
    data[CHOOSE i \in 1..Len(data) :
            data[i].id = id /\ \A h \in 1..(i-1) : data[h].id /= id].processed_text

\* ' '.join([f"{id}:{idx}" for idx in side])
Targets(id, side) ==
    join(<<" ">>, [i \in 1..Len(side) |-> id \o <<":">> \o str(side[i])])

\* The dict appended for one (left_side, right_side) of the aligner's result.
LinkOf(src_id, tgt_id, bead) ==
    [xtargets |-> Targets(src_id, bead[1]) \o <<";">> \o Targets(tgt_id, bead[2]),
     type |-> str(Len(bead[1])) \o <<"-">> \o str(Len(bead[2])),
     status |-> S_auto]

\* Fault variant of CallsAligner: only the source text is tested.
ChecksSourceOnly(src_text, tgt_text) == src_text /= <<>>

\* Whether _align_sents reaches the aligner (line 82 lets it through).
CallsAligner(src_text, tgt_text) == src_text /= <<>> /\ tgt_text /= <<>>

\* _align_sents, given what the aligner returns if it is called.
_align_sents(data, src_id, tgt_id, alignments) ==
    IF ~CallsAligner(TextOf(data, src_id), TextOf(data, tgt_id)) THEN None
    ELSE Some([i \in 1..Len(alignments) |-> LinkOf(src_id, tgt_id, alignments[i])])

\* `if alignment_result:` None and the empty list are both falsy.
NotNone(result) == ~result.none

Truthy(result) == ~result.none /\ result.links /= <<>>

\* -------------------------------------------------------- _generate_xml
S_643_0 == <<"6","4","3",":","0">>
S_641 == <<"6","4","1",":">>

\* The condition of the list comprehension of line 107.
Retain(result) ==
    Contains(result.xtargets, S_643_0) \/ Contains(result.xtargets, S_641)

\* Fault variant of FilterResults: nothing is filtered out.
KeepAll(results) == results

\* The list comprehension of line 107.
FilterResults(results) == SelectSeq(results, Retain)

\* Element / SubElement: a tag, the attributes in insertion order, the children.
Element(tag, attrib) == [tag |-> tag, attrib |-> attrib, children |-> <<>>]

AttrNames(e) == {e.attrib[i][1] : i \in 1..Len(e.attrib)}
AttrValue(e, k) == e.attrib[CHOOSE i \in 1..Len(e.attrib) : e.attrib[i][1] = k][2]

\* Lines 110-118: the tree _generate_xml builds.
BuildTree(results) ==
    [Element("linkGrp", << <<"toDoc", "placeholder_toDoc.xml">>,
                           <<"fromDoc", "placeholder_fromDoc.xml">> >>)
     EXCEPT !.children =
        [i \in 1..Len(results) |->
            Element("link", << <<"type", results[i].type>>,
                               <<"xtargets", results[i].xtargets>>,
                               <<"status", results[i].status>> >>)]]

\* tostring(root, encoding='unicode'): double-quoted attributes, nothing between
\* the tags, ' />' closing an element without children.
tostring(root) ==
    [declaration |-> "", quote |-> "\"", between |-> "", empty_close |-> " />", root |-> root]

\* _rearrange_link_attributes: every link keeps type, xtargets, status, in that order.
_rearrange_link_attributes(xml) ==
    LET ordered(link) ==
            LET present == SelectSeq(<<"type", "xtargets", "status">>,
                                     LAMBDA k : k \in AttrNames(link))
            IN  [link EXCEPT !.attrib = [i \in 1..Len(present) |->
                                            <<present[i], AttrValue(link, present[i])>>]]
        root == [xml.root EXCEPT !.children =
                    [i \in 1..Len(xml.root.children) |-> ordered(xml.root.children[i])]]
    IN  [tostring(root) EXCEPT !.empty_close = "/>"]

\* _prettify_and_refine_xml
_prettify_and_refine_xml(xml) ==
    [_rearrange_link_attributes(xml) EXCEPT
        !.between = "\n",
        !.quote = "'",
        !.declaration = "<?xml version='1.0' encoding='utf-8'?>\n"]

\* The text _generate_xml writes.
XmlContent(results) ==
    _prettify_and_refine_xml(tostring(BuildTree(FilterResults(results))))

OutputPath(name) == name \o <<".","x","m","l">>

\* open(path, 'w') ... write(content): the file is created or replaced.
WriteFile(files, path, content) ==
    {f \in files : f.path /= path} \cup {[path |-> path, content |-> content]}

Exists(files, path) == \E f \in files : f.path = path
ReadFile(files, path) == (CHOOSE f \in files : f.path = path).content

\* The link dicts a file's <link> elements stand for.
LinksOfFile(content) ==
    [i \in 1..Len(content.root.children) |->
        [xtargets |-> AttrValue(content.root.children[i], "xtargets"),
         type |-> AttrValue(content.root.children[i], "type"),
         status |-> AttrValue(content.root.children[i], "status")]]

\* ---------------------------------------------------- save_alignment_file
\* Fault variant of ReportRows: one row per file instead of one per record.
ReportRowsPerFile(aligned, files) ==
    LET firsts == SelectSeq([i \in 1..Len(aligned) |-> i],
                            LAMBDA i : /\ Exists(files, OutputPath(aligned[i][3]))
                                       /\ \A h \in 1..(i - 1) : aligned[h][3] /= aligned[i][3])
    IN  [k \in 1..Len(firsts) |->
            [t1_id |-> aligned[firsts[k]][1], t2_id |-> aligned[firsts[k]][2],
             alignment_file |-> ReadFile(files, OutputPath(aligned[firsts[k]][3]))]]

\* Lines 151-157: the rows of the report.
RECURSIVE ReportRows(_, _)
ReportRows(aligned, files) ==
    IF aligned = <<>> THEN <<>>
    ELSE LET rec == Head(aligned)
             path == OutputPath(rec[3])
         IN  (IF Exists(files, path)
              THEN << [t1_id |-> rec[1], t2_id |-> rec[2],
                       alignment_file |-> ReadFile(files, path)] >>
              ELSE <<>>)
             \o ReportRows(Tail(aligned), files)

\* ----------------------------------------------------------------- run
\* Line 165: load_data().
load_data ==
    /\ pc = "load_data"
    /\ texts_data' = LoadedTable(texts_xlsx)
    /\ pc' = "align_texts"
    /\ UNCHANGED <<texts_xlsx, aligned_texts, failed_pairs, xml_files, alignments_xlsx,
                   stdout, grouped, combinations, ev, g1, g2, r1, r2, pair_name,
                   alignment_results, aligner_calls, attempts, processed, writes>>

\* Lines 46-51: align_texts() up to the first iteration of its loops.
align_texts ==
    /\ pc = "align_texts"
    /\ stdout' = Append(stdout, [msg |-> "aligning", pairs |-> <<>>])
    /\ grouped' = GroupByEvent(texts_data)
    /\ combinations' = IF grouped' = <<>> THEN <<>> ELSE GroupByKey(texts_data, grouped'[1].rows)
    /\ ev' = 1 /\ g1' = 1 /\ g2' = 1
    /\ pc' = IF grouped' = <<>> THEN "warn" ELSE "for_pair"
    /\ UNCHANGED <<texts_xlsx, texts_data, aligned_texts, failed_pairs, xml_files,
                   alignments_xlsx, r1, r2, pair_name, alignment_results,
                   aligner_calls, attempts, processed, writes>>

\* Move the loops of lines 50-54 to their next iteration, or leave align_texts.
Advance ==
    LET nx == NextPair(Len(grouped), Len(combinations), ev, g1, g2)
    IN  /\ ev' = nx.ev /\ g1' = nx.g1 /\ g2' = nx.g2
        /\ combinations' = IF nx.ev = ev THEN combinations
                           ELSE GroupByKey(texts_data, grouped[nx.ev].rows)
        /\ pc' = IF nx.done THEN "warn" ELSE "for_pair"

\* Line 55, the test fails: nothing is done for (key1, key2).
skip_pair ==
    /\ pc = "for_pair"
    /\ ~TupleLess(key1, key2)
    /\ Advance
    /\ UNCHANGED <<texts_xlsx, texts_data, aligned_texts, failed_pairs, xml_files,
                   alignments_xlsx, stdout, grouped, r1, r2, pair_name,
                   alignment_results, aligner_calls, attempts, processed, writes>>

\* Fault variant of NewResults: the list is not reset between GroupPairs.
CarryOver(previous) == previous

\* Line 61: the list a GroupPair accumulates its links in.
NewResults(previous) == <<>>

\* Lines 55-61, the test holds: pair_name and an empty alignment_results.
begin_pair ==
    /\ pc = "for_pair"
    /\ TupleLess(key1, key2)
    /\ pair_name' = PairName(key1, key2)
    /\ alignment_results' = NewResults(alignment_results)
    /\ r1' = 1 /\ r2' = 1
    /\ processed' = Append(processed,
            [event |-> event_id, k1 |-> key1, k2 |-> key2, first |-> Len(attempts) + 1])
    /\ pc' = "for_rows"
    /\ UNCHANGED <<texts_xlsx, texts_data, aligned_texts, failed_pairs, xml_files,
                   alignments_xlsx, stdout, grouped, combinations, ev, g1, g2,
                   aligner_calls, attempts, writes>>

\* Lines 64-71: one iteration of the row loops, _align_sents included.
align_sents ==
    /\ pc = "for_rows"
    /\ LET called == CallsAligner(TextOf(texts_data, row1.id), TextOf(texts_data, row2.id))
           nx == NextRows(Len(group1), Len(group2), r1, r2)
       IN  \E alignments \in (IF called THEN AlignerOutputs ELSE {<<>>}) :
             LET alignment_result == _align_sents(texts_data, row1.id, row2.id, alignments)
             IN  /\ aligner_calls' = IF called THEN aligner_calls + 1 ELSE aligner_calls
                 /\ IF Truthy(alignment_result)
                    THEN /\ alignment_results' = alignment_results \o alignment_result.links
                         /\ aligned_texts' = Append(aligned_texts, <<row1.id, row2.id, pair_name>>)
                         /\ UNCHANGED failed_pairs
                    ELSE /\ failed_pairs' = Append(failed_pairs, <<row1.id, row2.id, pair_name>>)
                         /\ UNCHANGED <<alignment_results, aligned_texts>>
                 /\ attempts' = Append(attempts,
                        [pair |-> Len(processed), src |-> row1.id, tgt |-> row2.id,
                         pair_name |-> pair_name, result |-> alignment_result])
                 /\ r1' = nx.r1 /\ r2' = nx.r2
                 /\ pc' = IF nx.done THEN "generate" ELSE "for_rows"
    /\ UNCHANGED <<texts_xlsx, texts_data, xml_files, alignments_xlsx, stdout, grouped,
                   combinations, ev, g1, g2, pair_name, processed, writes>>

\* Lines 74-75: after the row loops, _generate_xml if anything was accumulated.
generate_xml ==
    /\ pc = "generate"
    /\ IF alignment_results /= <<>>
       THEN /\ xml_files' = WriteFile(xml_files, OutputPath(pair_name),
                                      XmlContent(alignment_results))
            /\ writes' = Append(writes,
                    [pair |-> Len(processed), pair_name |-> pair_name,
                     links |-> alignment_results, at |-> Len(attempts)])
       ELSE UNCHANGED <<xml_files, writes>>
    /\ Advance
    /\ UNCHANGED <<texts_xlsx, texts_data, aligned_texts, failed_pairs, alignments_xlsx,
                   stdout, grouped, r1, r2, pair_name, alignment_results, aligner_calls,
                   attempts, processed>>

\* Fault variant of ShouldWarn: the warning is printed whatever failed_pairs holds.
WarnAlways(failed) == TRUE

\* Line 167: `if self.failed_pairs:`
ShouldWarn(failed) == failed /= <<>>

\* Lines 167-168: the warning.
warn ==
    /\ pc = "warn"
    /\ stdout' = IF ShouldWarn(failed_pairs)
                 THEN Append(stdout, [msg |-> "warning", pairs |-> failed_pairs])
                 ELSE stdout
    /\ pc' = "save_alignment_file"
    /\ UNCHANGED <<texts_xlsx, texts_data, aligned_texts, failed_pairs, xml_files,
                   alignments_xlsx, grouped, combinations, ev, g1, g2, r1, r2, pair_name,
                   alignment_results, aligner_calls, attempts, processed, writes>>

\* Line 169: save_alignment_file().
save_alignment_file ==
    /\ pc = "save_alignment_file"
    /\ alignments_xlsx' = [written |-> TRUE, rows |-> ReportRows(aligned_texts, xml_files)]
    /\ stdout' = Append(stdout, [msg |-> "saved", pairs |-> <<>>])
    /\ pc' = "done"
    /\ UNCHANGED <<texts_xlsx, texts_data, aligned_texts, failed_pairs, xml_files,
                   grouped, combinations, ev, g1, g2, r1, r2, pair_name,
                   alignment_results, aligner_calls, attempts, processed, writes>>

Next ==
    \/ load_data
    \/ align_texts
    \/ skip_pair
    \/ begin_pair
    \/ align_sents
    \/ generate_xml
    \/ warn
    \/ save_alignment_file

Spec == Init /\ [][Next]_vars

\* run() is one sequential thread: whatever step is next is taken.
FairSpec == Spec /\ WF_vars(Next)

\* ========================================================= properties
\* The rows of event e with key k, as ids in table order.
IdsOf(e, k) ==
    LET rs == SelectSeq(texts_data, LAMBDA row : row.event_id = e /\ KeyOf(row) = k)
    IN  [i \in 1..Len(rs) |-> rs[i].id]

KeysOfEvent(e) ==
    {KeyOf(texts_data[i]) : i \in {j \in 1..Len(texts_data) : texts_data[j].event_id = e}}

EventsOfTable == {texts_data[i].event_id : i \in 1..Len(texts_data)}

AlignDone == pc \in {"warn", "save_alignment_file", "done"}

\* The GroupPair at position p of processed has finished its row loops.
RowsDone(p) == p < Len(processed) \/ pc /= "for_rows"

\* The GroupPair at position p of processed has passed lines 74-75.
PairDone(p) == p < Len(processed) \/ pc \notin {"for_rows", "generate"}

PairAttempts(p) == SelectSeq(attempts, LAMBDA a : a.pair = p)

\* The record an invocation is to leave in one of the two lists.
RecordOf(a) == <<a.src, a.tgt, a.pair_name>>

\* The links of the attempts of GroupPair p that returned a non-empty list, in
\* the order of the attempts.
Discovered(p) ==
    LET ok == SelectSeq(attempts, LAMBDA a : a.pair = p /\ Truthy(a.result))
    IN  Flatten([i \in 1..Len(ok) |-> ok[i].result.links])

\* The links the attempt of (src, tgt) returned.
LinksOfAttempt(src, tgt) ==
    (CHOOSE a \in Range(attempts) : a.src = src /\ a.tgt = tgt).result.links

\* C1: within every event each unordered pair of distinct GroupKeys is processed
\* exactly once, lesser key first, and never a key with itself; once align_texts
\* has finished an event of N keys has had exactly N*(N-1)/2 GroupPairs.
C1_PairsOnce ==
    /\ \A i \in 1..Len(processed) :
          /\ processed[i].k1 /= processed[i].k2
          /\ TupleLess(processed[i].k1, processed[i].k2)
          /\ ~TupleLess(processed[i].k2, processed[i].k1)
          /\ {processed[i].k1, processed[i].k2} \subseteq KeysOfEvent(processed[i].event)
    /\ \A i, j \in 1..Len(processed) :
          (i < j /\ processed[i].event = processed[j].event)
              => {processed[i].k1, processed[i].k2} /= {processed[j].k1, processed[j].k2}
    /\ AlignDone =>
          \A e \in EventsOfTable :
              LET N == Cardinality(KeysOfEvent(e))
                  done == {i \in 1..Len(processed) : processed[i].event = e}
              IN  /\ 2 * Cardinality(done) = N * (N - 1)
                  /\ \A a, b \in KeysOfEvent(e) :
                        a /= b => \E i \in done : {processed[i].k1, processed[i].k2} = {a, b}

C1_Witness ==
    /\ pc = "done"
    /\ \E e \in EventsOfTable :
          /\ Cardinality(KeysOfEvent(e)) = 3
          /\ Cardinality({i \in 1..Len(processed) : processed[i].event = e}) = 3

\* C2: a GroupPair whose groups hold m and n documents gets exactly m*n
\* _align_sents invocations, one per (row1, row2) in loop order, and every
\* invocation leaves exactly one record (src_id, tgt_id, pair_name) in exactly one
\* of aligned_texts and failed_pairs.
C2_CrossProduct ==
    /\ Len(aligned_texts) + Len(failed_pairs) = Len(attempts)
    /\ \A i \in 1..Len(attempts) :
          LET rec == RecordOf(attempts[i])
          IN  /\ (\E k \in 1..Len(aligned_texts) : aligned_texts[k] = rec)
                    /= (\E k \in 1..Len(failed_pairs) : failed_pairs[k] = rec)
              /\ \A j \in 1..Len(attempts) :
                    i /= j => (attempts[i].src /= attempts[j].src
                                 \/ attempts[i].tgt /= attempts[j].tgt)
    /\ \A p \in 1..Len(processed) :
          LET ids1 == IdsOf(processed[p].event, processed[p].k1)
              ids2 == IdsOf(processed[p].event, processed[p].k2)
              name == PairName(processed[p].k1, processed[p].k2)
              A == PairAttempts(p)
          IN  /\ \A k \in 1..Len(A) : A[k].pair_name = name
              /\ RowsDone(p) =>
                    /\ Len(A) = Len(ids1) * Len(ids2)
                    /\ \A x \in 1..Len(ids1) : \A y \in 1..Len(ids2) :
                          /\ A[(x - 1) * Len(ids2) + y].src = ids1[x]
                          /\ A[(x - 1) * Len(ids2) + y].tgt = ids2[y]

C2_Witness ==
    /\ pc = "done"
    /\ \E p \in 1..Len(processed) :
          /\ Len(PairAttempts(p)) = 2
          /\ \E a, b \in Range(PairAttempts(p)) :
                /\ RecordOf(a) \in Range(aligned_texts)
                /\ RecordOf(b) \in Range(failed_pairs)

\* C3: an attempt on a document-pair one of whose processed_text is empty does
\* not call the aligner, appends the pair to failed_pairs and not to
\* aligned_texts, leaves alignment_results as it is, and the loop goes on.
C3_EmptyTextSkip ==
    [][ (pc = "for_rows" /\ (row1.processed_text = <<>> \/ row2.processed_text = <<>>))
          => /\ aligner_calls' = aligner_calls
             /\ failed_pairs' = Append(failed_pairs, <<row1.id, row2.id, pair_name>>)
             /\ aligned_texts' = aligned_texts
             /\ alignment_results' = alignment_results
             /\ pc' \in {"for_rows", "generate"} ]_vars

C3_Witness ==
    /\ pc = "done"
    /\ aligner_calls > 0
    /\ alignment_results /= <<>>
    /\ \E a \in Range(attempts) :
          /\ a.result.none
          /\ RecordOf(a) \in Range(failed_pairs)
          /\ \E i \in 1..Len(texts_data) :
                /\ texts_data[i].id = a.tgt
                /\ texts_data[i].processed_text = <<>>
          /\ \E i \in 1..Len(texts_data) :
                /\ texts_data[i].id = a.src
                /\ texts_data[i].processed_text /= <<>>

\* C4: a document-pair is in aligned_texts whenever its attempt returned a list,
\* the empty list included, and in failed_pairs only when it returned None.
C4_SuccessIffNotNone ==
    \A i \in 1..Len(attempts) :
        /\ NotNone(attempts[i].result) => RecordOf(attempts[i]) \in Range(aligned_texts)
        /\ RecordOf(attempts[i]) \in Range(failed_pairs) => attempts[i].result.none

C6_AppendConsistent ==
    AlignDone =>
        \A i \in 1..Len(aligned_texts) :
            LET rec == aligned_texts[i]
                links == LinksOfAttempt(rec[1], rec[2])
            IN  \A k \in 1..Len(links) :
                    Retain(links[k]) =>
                        /\ Exists(xml_files, OutputPath(rec[3]))
                        /\ links[k] \in Range(LinksOfFile(ReadFile(xml_files, OutputPath(rec[3]))))

\* C7: a GroupPair all of whose accumulated links fail the condition of line 107
\* writes no file, and if no other GroupPair wrote the file of its pair_name the
\* report has no row for its document-pairs.
C7_NoFileWhenAllFiltered ==
    \A p \in 1..Len(processed) :
        (PairDone(p) /\ \A k \in 1..Len(Discovered(p)) : ~Retain(Discovered(p)[k]))
            => /\ \A i \in 1..Len(writes) : writes[i].pair /= p
               /\ (pc = "done"
                     /\ \A i \in 1..Len(writes) :
                           writes[i].pair_name
                               /= PairName(processed[p].k1, processed[p].k2))
                    => \A a \in Range(PairAttempts(p)) :
                          \A r \in 1..Len(alignments_xlsx.rows) :
                              ~(/\ alignments_xlsx.rows[r].t1_id = a.src
                                /\ alignments_xlsx.rows[r].t2_id = a.tgt)

\* C8: the report has, in the order of aligned_texts, one row per record of
\* aligned_texts whose file exists, holding the ids and the file's content, and
\* no other row; the files are those align_texts left.
C8_ReportRows ==
    /\ [](pc = "done" =>
            LET idx == SelectSeq([i \in 1..Len(aligned_texts) |-> i],
                                 LAMBDA i : Exists(xml_files, OutputPath(aligned_texts[i][3])))
                rows == alignments_xlsx.rows
            IN  /\ alignments_xlsx.written
                /\ Len(rows) = Len(idx)
                /\ \A k \in 1..Len(idx) :
                      /\ rows[k].t1_id = aligned_texts[idx[k]][1]
                      /\ rows[k].t2_id = aligned_texts[idx[k]][2]
                      /\ rows[k].alignment_file
                            = ReadFile(xml_files, OutputPath(aligned_texts[idx[k]][3]))
                /\ \A k \in 1..Len(rows) : \A f \in 1..Len(failed_pairs) :
                      ~(rows[k].t1_id = failed_pairs[f][1] /\ rows[k].t2_id = failed_pairs[f][2]))
    /\ [][AlignDone => xml_files' = xml_files]_vars

C8_Witness ==
    /\ pc = "done"
    /\ failed_pairs /= <<>>
    /\ Len(alignments_xlsx.rows) >= 2
    /\ alignments_xlsx.rows[1].alignment_file = alignments_xlsx.rows[2].alignment_file
    /\ Len(alignments_xlsx.rows[1].alignment_file.root.children) >= 1

\* C9: a GroupPair writes its file at most once, after all its attempts and only
\* with a non-empty accumulated list; alignment_results holds the links of the
\* current GroupPair only.
C9_WriteAfterCrossProduct ==
    /\ \A i, j \in 1..Len(writes) : i /= j => writes[i].pair /= writes[j].pair
    /\ \A i \in 1..Len(writes) :
          LET p == writes[i].pair
          IN  /\ writes[i].links /= <<>>
              /\ Len(PairAttempts(p))
                    = Len(IdsOf(processed[p].event, processed[p].k1))
                        * Len(IdsOf(processed[p].event, processed[p].k2))
              /\ \A k \in 1..Len(attempts) : attempts[k].pair = p => k <= writes[i].at
              /\ writes[i].links = Discovered(p)
    /\ \A p \in 1..Len(processed) :
          (PairDone(p) /\ Discovered(p) = <<>>) => \A i \in 1..Len(writes) : writes[i].pair /= p
    /\ pc \in {"for_rows", "generate"} => alignment_results = Discovered(Len(processed))

C9_Witness ==
    /\ pc = "generate"
    /\ Len(processed) >= 3
    /\ Len(writes) >= 1
    /\ alignment_results /= <<>>
    /\ \E p \in 1..Len(processed) : PairDone(p) /\ \A i \in 1..Len(writes) : writes[i].pair /= p

\* The stages of run() in order.
Stage(at) ==
    CASE at = "load_data" -> 1
      [] at \in {"align_texts", "for_pair", "for_rows", "generate"} -> 2
      [] at = "warn" -> 3
      [] at = "save_alignment_file" -> 4
      [] at = "done" -> 5

Messages == [i \in 1..Len(stdout) |-> stdout[i].msg]

\* The document-pairs of the table: two rows of one event with different keys.
DocumentPairs ==
    {ij \in (1..Len(texts_data)) \X (1..Len(texts_data)) :
        /\ ij[1] < ij[2]
        /\ texts_data[ij[1]].event_id = texts_data[ij[2]].event_id
        /\ KeyOf(texts_data[ij[1]]) /= KeyOf(texts_data[ij[2]])}

\* C10: run() terminates, goes through load_data, align_texts, the warning and
\* save_alignment_file in that order, attempts every document-pair whatever
\* failed before, warns once and only if failed_pairs is non-empty, with all of
\* failed_pairs and after the last GroupPair, and ends with the report written.
C10_RunCompletes ==
    /\ <>(pc = "done")
    /\ [][Stage(pc') \in {Stage(pc), Stage(pc) + 1}]_vars
    /\ [](\A i \in 1..Len(stdout) :
            stdout[i].msg = "warning" => (AlignDone /\ pc /= "warn" /\ stdout[i].pairs = failed_pairs))
    /\ [](pc = "done" =>
            /\ alignments_xlsx.written
            /\ Len(attempts) = Cardinality(DocumentPairs)
            /\ Messages = <<"aligning">>
                            \o (IF failed_pairs /= <<>> THEN <<"warning">> ELSE <<>>)
                            \o <<"saved">>
            /\ \A a \in Range(attempts) :
                  ~Truthy(a.result) =>
                      \E i \in 1..Len(stdout) :
                          stdout[i].msg = "warning" /\ RecordOf(a) \in Range(stdout[i].pairs))

C10_Witness ==
    /\ pc = "done"
    /\ Len(attempts) >= 3
    /\ ~Truthy(attempts[1].result)
    /\ Truthy(attempts[3].result)
    /\ \E i \in 1..Len(stdout) : stdout[i].msg = "warning"
    /\ Len(alignments_xlsx.rows) >= 1

====
